---- MODULE Spec2Model ----
(***************************************************************************)
(* A model of the numerical stepping core of nn-benchmark:                  *)
(*   src/src/integrators.py        the integrators and their dispatcher     *)
(*   src/src/systems/spring_mesh.py the particle-spring mesh system         *)
(*                                                                          *)
(* Numbers are exact rationals <<num, den>> (den > 0, lowest terms), which  *)
(* is the arithmetic the floating-point code approximates.  A tensor of     *)
(* shape (batch, 1) is a sequence over the batch of rationals.              *)
(***************************************************************************)
EXTENDS Integers, Sequences, FiniteSets, TLC

(***************************************************************************)
(* Bounds of the model.                                                     *)
(***************************************************************************)
MaxT == 3
MaxCoarsen == 2

(***************************************************************************)
(* Exact rational arithmetic.                                               *)
(***************************************************************************)
Abs(n) == IF n < 0 THEN -n ELSE n

RECURSIVE GCD(_, _)
GCD(a, b) == IF b = 0 THEN a ELSE GCD(b, a % b)

Rat(n, d) ==
    LET g == GCD(Abs(n), Abs(d))
        s == IF d < 0 THEN -1 ELSE 1
    IN  <<(s * n) \div g, (s * d) \div g>>

RInt(n) == <<n, 1>>
RZero == RInt(0)
ROne == RInt(1)
RAdd(a, b) == Rat(a[1] * b[2] + b[1] * a[2], a[2] * b[2])
RNeg(a) == <<-a[1], a[2]>>
RSub(a, b) == RAdd(a, RNeg(b))
RMul(a, b) == Rat(a[1] * b[1], a[2] * b[2])
RDiv(a, b) == Rat(a[1] * b[2], a[2] * b[1])

\* Elementwise tensor arithmetic over the batch axis.
VAdd(u, v) == [b \in DOMAIN u |-> RAdd(u[b], v[b])]
VScale(c, v) == [b \in DOMAIN v |-> RMul(c, v[b])]
VNeg(v) == [b \in DOMAIN v |-> RNeg(v[b])]
VConst(c, v) == [b \in DOMAIN v |-> c]

(***************************************************************************)
(* IntegrationScheme (an IntEnum) and the integrator names.                 *)
(***************************************************************************)
DIRECT_OUTPUT == 1
HAMILTONIAN == 5
\* Any value that is neither member of the enum.
OTHER_SCHEME == 0

IntegratorNames ==
    {"leapfrog", "euler", "rk4", "null", "back-euler", "implicit-rk",
     "scipy-RK45", "scipy-bogus", "bogus"}

startswith_scipy(integrator) ==
    integrator \in {"scipy-RK45", "scipy-bogus"}

\* integrator.split("-")[1]
split_method(integrator) ==
    IF integrator = "scipy-RK45" THEN "RK45" ELSE "bogus"

(***************************************************************************)
(* The derivative contract: the models (Func) a caller may pass.            *)
(*   zero     f(p, q) = (0, 0)                 H = 0                        *)
(*   const    dp/dt = 1, dq/dt = 2             H = 2p - q                   *)
(*   gravity  dp/dt = -1, dq/dt = p            H = p^2/2 + q                *)
(*   qforce   dp/dt = -q, dq/dt = 1            H = q^2/2 + p                *)
(*   step     a discrete-time model returning the next state (p+1, q+p)     *)
(*   rollout  a model that is called once for a whole trajectory            *)
(* Their trajectories grow polynomially, which keeps the exact rationals    *)
(* within the integer range.                                                *)
(***************************************************************************)
DerivativeModels == {"zero", "const", "gravity", "qforce"}
\* A system whose momentum derivative depends on the momentum: H = p * q.
CoupledModels == {"pq"}
StepModels == {"step"}
RolloutModels == {"rollout"}

\* dH/dq and dH/dp of the energy the model returns: what
\* grad(hamilt.sum(), q) and grad(hamilt.sum(), p) evaluate to.
GradQ(model, p, q) ==
    CASE model = "zero" -> VConst(RZero, q)
      [] model = "const" -> VConst(RInt(-1), q)
      [] model = "gravity" -> VConst(ROne, q)
      [] model = "qforce" -> q
      [] model = "pq" -> p

GradP(model, p, q) ==
    CASE model = "zero" -> VConst(RZero, p)
      [] model = "const" -> VConst(RInt(2), p)
      [] model = "gravity" -> p
      [] model = "qforce" -> VConst(ROne, p)
      [] model = "pq" -> q

\* Func(p=p, q=q, dt=dt) of a direct model: a record with the fields the
\* model's result carries.
Func(model, p, q) ==
    IF model = "step"
    THEN [p |-> VAdd(p, VConst(ROne, p)), q |-> VAdd(q, p)]
    ELSE [dp_dt |-> VNeg(GradQ(model, p, q)), dq_dt |-> GradP(model, p, q)]

(***************************************************************************)
(* The program state.                                                       *)
(*   entry         the public operation the caller invoked                  *)
(*   a             the arguments of the running call                        *)
(*   stack         the suspended numerically_integrate frames               *)
(*   pc            the function (or loop) control is in                     *)
(*   i, p, q, dpdt, x   the locals of the running integrator                *)
(*   trajectories  the pre-allocated buffer, time-major; <<>> is a slot     *)
(*                 of torch.empty not written yet                           *)
(*   result, error what the call returned, or the exception it raised       *)
(*   log           the observable operations performed so far, in order     *)
(*   sys           the SpringMeshSystem instance, once constructed          *)
(*   loc           the locals of generate_trajectory                        *)
(***************************************************************************)
VARIABLES entry, a, stack, pc, i, p, q, dpdt, x, trajectories, result, error, log,
          sys, loc

vars == <<entry, a, stack, pc, i, p, q, dpdt, x, trajectories, result, error, log,
          sys, loc>>

Ev(op, pp, qq) == [op |-> op, p |-> pp, q |-> qq]
Mark(op) == Ev(op, <<>>, <<>>)

NoResult == [kind |-> "None", q |-> <<>>, p |-> <<>>]

\* raise <exc>: no frame of the core catches, so the whole call ends.
Raise(exc) ==
    /\ error' = exc
    /\ pc' = "done"

\* torch.empty((T, p_0.shape[0], 2 * p_0.shape[1]))
EmptyBuffer(T) == [t \in 1..T |-> <<>>]

\* Faulty variant: q stored in the columns of p and p in those of q.
WriteRowSwapped(traj, idx, pp, qq) ==
    [traj EXCEPT ![idx + 1] = [b \in DOMAIN pp |-> <<qq[b], pp[b]>>]]

\* trajectories[i, :, :n] = p ; trajectories[i, :, n:] = q   (i is 0-based)
WriteRow(traj, idx, pp, qq) ==
    [traj EXCEPT ![idx + 1] = [b \in DOMAIN pp |-> <<pp[b], qq[b]>>]]

\* trajectories.permute(1, 0, 2), then the slices [:, :, :n] and [:, :, n:].
SliceP(traj, B) == [b \in 1..B |-> [t \in DOMAIN traj |-> traj[t][b][1]]]
SliceQ(traj, B) == [b \in 1..B |-> [t \in DOMAIN traj |-> traj[t][b][2]]]

\* IntegrationResult(q=ret_q, p=ret_p)
IntegrationResult(ret_q, ret_p) ==
    [kind |-> "IntegrationResult", q |-> ret_q, p |-> ret_p]

SplitResult(traj, B) == IntegrationResult(SliceQ(traj, B), SliceP(traj, B))

\* The derivative pair <<dpdt, dqdt>> an explicit integrator obtains at
\* (p_, q_): by differentiating the energy, or from the model directly.
HamiltDeriv(model, p_, q_) == <<VNeg(GradQ(model, p_, q_)), GradP(model, p_, q_)>>
DirectDeriv(model, p_, q_) ==
    LET time_drvt == Func(model, p_, q_) IN <<time_drvt.dp_dt, time_drvt.dq_dt>>
dpdt_dqdt(is_Hamilt, model, p_, q_) ==
    IF is_Hamilt THEN HamiltDeriv(model, p_, q_) ELSE DirectDeriv(model, p_, q_)

Half == Rat(1, 2)
Sixth == Rat(1, 6)

(***************************************************************************)
(* euler                                                                    *)
(***************************************************************************)
EulerEnter ==
    /\ pc = "euler"
    /\ trajectories' = EmptyBuffer(a.T)
    /\ p' = a.p_0.data
    /\ q' = a.q_0.data
    /\ i' = 0
    /\ log' = Append(log, Mark("alloc"))
    /\ pc' = "euler_loop"
    /\ UNCHANGED <<sys, loc, entry, a, stack, dpdt, x, result, error>>

EulerUpdate(is_Hamilt, model, dt, pp, qq) ==
    LET d == dpdt_dqdt(is_Hamilt, model, pp, qq)
        p_next == VAdd(pp, VScale(dt, d[1]))
        q_next == VAdd(qq, VScale(dt, d[2]))
    IN  <<p_next, q_next>>

\* Faulty variant: the slot is written after the update, with the new state.
EulerStepWritesAfter ==
    /\ pc = "euler_loop"
    /\ i < a.T
    /\ LET nxt == EulerUpdate(a.is_Hamilt, a.model, a.dt, p, q)
       IN  /\ p' = nxt[1]
           /\ q' = nxt[2]
           /\ trajectories' = WriteRow(trajectories, i, nxt[1], nxt[2])
           /\ log' = log \o <<Ev("eval", p, q), Ev("write", nxt[1], nxt[2])>>
    /\ i' = i + 1
    /\ UNCHANGED <<sys, loc, entry, a, stack, pc, dpdt, x, result, error>>

EulerStep ==
    /\ pc = "euler_loop"
    /\ i < a.T
    /\ trajectories' = WriteRow(trajectories, i, p, q)
    /\ LET nxt == EulerUpdate(a.is_Hamilt, a.model, a.dt, p, q)
       IN  /\ p' = nxt[1]
           /\ q' = nxt[2]
    /\ log' = log \o <<Ev("write", p, q), Ev("eval", p, q)>>
    /\ i' = i + 1
    /\ UNCHANGED <<sys, loc, entry, a, stack, pc, dpdt, x, result, error>>

EulerReturn ==
    /\ pc = "euler_loop"
    /\ i = a.T
    /\ result' = SplitResult(trajectories, Len(a.p_0.data))
    /\ pc' = "ret"
    /\ UNCHANGED <<sys, loc, entry, a, stack, i, p, q, dpdt, x, trajectories, error, log>>

(***************************************************************************)
(* leapfrog                                                                 *)
(***************************************************************************)
LeapfrogEnter ==
    /\ pc = "leapfrog"
    /\ trajectories' = EmptyBuffer(a.T)
    /\ p' = a.p_0.data
    /\ q' = a.q_0.data
    /\ i' = 0
    /\ dpdt' = dpdt_dqdt(a.is_Hamilt, a.model, a.p_0.data, a.q_0.data)[1]
    /\ log' = log \o <<Mark("alloc"), Ev("eval", a.p_0.data, a.q_0.data)>>
    /\ pc' = "leapfrog_loop"
    /\ UNCHANGED <<sys, loc, entry, a, stack, x, result, error>>

\* Faulty variant: the drift uses dq/dt at the momentum of the step's start.
LeapfrogUpdateDriftsEarly(is_Hamilt, model, dt, pp, qq, dp) ==
    LET p_half == VAdd(pp, VScale(RMul(dt, Half), dp))
        dqdt == dpdt_dqdt(is_Hamilt, model, pp, qq)[2]
        q_next == VAdd(qq, VScale(dt, dqdt))
        dp2 == dpdt_dqdt(is_Hamilt, model, p_half, q_next)[1]
        p_next == VAdd(p_half, VScale(RMul(dt, Half), dp2))
    IN  <<p_next, q_next, dp2, p_half>>

\* One pass of the loop body: <<p_next, q_next, dpdt, p_half>>.
LeapfrogUpdate(is_Hamilt, model, dt, pp, qq, dp) ==
    LET p_half == VAdd(pp, VScale(RMul(dt, Half), dp))
        dqdt == dpdt_dqdt(is_Hamilt, model, p_half, qq)[2]
        q_next == VAdd(qq, VScale(dt, dqdt))
        dp2 == dpdt_dqdt(is_Hamilt, model, p_half, q_next)[1]
        p_next == VAdd(p_half, VScale(RMul(dt, Half), dp2))
    IN  <<p_next, q_next, dp2, p_half>>

LeapfrogStep ==
    /\ pc = "leapfrog_loop"
    /\ i < a.T
    /\ trajectories' = WriteRow(trajectories, i, p, q)
    /\ LET nxt == LeapfrogUpdate(a.is_Hamilt, a.model, a.dt, p, q, dpdt)
       IN  /\ p' = nxt[1]
           /\ q' = nxt[2]
           /\ dpdt' = nxt[3]
           /\ log' = log \o <<Ev("write", p, q), Ev("eval", nxt[4], q),
                              Ev("eval", nxt[4], nxt[2])>>
    /\ i' = i + 1
    /\ UNCHANGED <<sys, loc, entry, a, stack, pc, x, result, error>>

LeapfrogReturn ==
    /\ pc = "leapfrog_loop"
    /\ i = a.T
    /\ result' = SplitResult(trajectories, Len(a.p_0.data))
    /\ pc' = "ret"
    /\ UNCHANGED <<sys, loc, entry, a, stack, i, p, q, dpdt, x, trajectories, error, log>>

(***************************************************************************)
(* rk4                                                                      *)
(***************************************************************************)
Rk4Enter ==
    /\ pc = "rk4"
    /\ trajectories' = EmptyBuffer(a.T)
    /\ p' = a.p_0.data
    /\ q' = a.q_0.data
    /\ i' = 0
    /\ log' = Append(log, Mark("alloc"))
    /\ pc' = "rk4_loop"
    /\ UNCHANGED <<sys, loc, entry, a, stack, dpdt, x, result, error>>

\* Faulty variant: the classical weight 2 in both branches.
Rk4Weight3Classical(is_Hamilt) == RInt(2)

\* The weight of the third stage: 3 in the Hamiltonian branch, 2 in the
\* direct branch.
Rk4Weight3(is_Hamilt) == IF is_Hamilt THEN RInt(3) ELSE RInt(2)

\* A stage point: the state s = <<p, q>> moved by c along the derivative
\* pair k = <<dpdt, dqdt>>, as in (p + 0.5*dt*p_k1, q + 0.5*dt*q_k1).
Rk4Point(s, c, k) == <<VAdd(s[1], VScale(c, k[1])), VAdd(s[2], VScale(c, k[2]))>>

\* The stage derivatives at the state s = <<p, q>>.
Rk4K1(is_Hamilt, model, dt, s) == dpdt_dqdt(is_Hamilt, model, s[1], s[2])
Rk4At2(is_Hamilt, model, dt, s) ==
    Rk4Point(s, RMul(Half, dt), Rk4K1(is_Hamilt, model, dt, s))
Rk4K2(is_Hamilt, model, dt, s) ==
    Rk4K1(is_Hamilt, model, dt, Rk4At2(is_Hamilt, model, dt, s))
Rk4At3(is_Hamilt, model, dt, s) ==
    Rk4Point(s, RMul(Half, dt), Rk4K2(is_Hamilt, model, dt, s))
Rk4K3(is_Hamilt, model, dt, s) ==
    Rk4K1(is_Hamilt, model, dt, Rk4At3(is_Hamilt, model, dt, s))
Rk4At4(is_Hamilt, model, dt, s) ==
    Rk4Point(s, dt, Rk4K3(is_Hamilt, model, dt, s))
Rk4K4(is_Hamilt, model, dt, s) ==
    Rk4K1(is_Hamilt, model, dt, Rk4At4(is_Hamilt, model, dt, s))

\* Faulty variant: dt added to the weighted sum instead of scaling it.
Rk4CombineAddsStep(is_Hamilt, dt, v, k1, k2, k3, k4) ==
    VAdd(v, VScale(Sixth,
                   VAdd(VConst(dt, v),
                        VAdd(VAdd(VAdd(k1, VScale(RInt(2), k2)),
                                  VScale(Rk4Weight3(is_Hamilt), k3)), k4))))

\* v + (1./6.) * dt * (k1 + 2 * k2 + w3 * k3 + k4)
Rk4Combine(is_Hamilt, dt, v, k1, k2, k3, k4) ==
    VAdd(v, VScale(RMul(Sixth, dt),
                   VAdd(VAdd(VAdd(k1, VScale(RInt(2), k2)),
                             VScale(Rk4Weight3(is_Hamilt), k3)), k4)))

Rk4Next(is_Hamilt, dt, s, k1, k2, k3, k4) ==
    <<Rk4Combine(is_Hamilt, dt, s[1], k1[1], k2[1], k3[1], k4[1]),
      Rk4Combine(is_Hamilt, dt, s[2], k1[2], k2[2], k3[2], k4[2])>>

Rk4Update(is_Hamilt, model, dt, pp, qq) ==
    Rk4Next(is_Hamilt, dt, <<pp, qq>>,
            Rk4K1(is_Hamilt, model, dt, <<pp, qq>>), Rk4K2(is_Hamilt, model, dt, <<pp, qq>>),
            Rk4K3(is_Hamilt, model, dt, <<pp, qq>>), Rk4K4(is_Hamilt, model, dt, <<pp, qq>>))

\* The four (p_, q_) the model is evaluated at during one step, in order.
Rk4Evals(is_Hamilt, model, dt, s) ==
    <<s, Rk4At2(is_Hamilt, model, dt, s), Rk4At3(is_Hamilt, model, dt, s),
      Rk4At4(is_Hamilt, model, dt, s)>>

EvalEvent(s) == Ev("eval", s[1], s[2])

Rk4Step ==
    /\ pc = "rk4_loop"
    /\ i < a.T
    /\ trajectories' = WriteRow(trajectories, i, p, q)
    /\ LET nxt == Rk4Update(a.is_Hamilt, a.model, a.dt, p, q)
       IN  /\ p' = nxt[1]
           /\ q' = nxt[2]
    /\ LET at == Rk4Evals(a.is_Hamilt, a.model, a.dt, <<p, q>>)
       IN  log' = log \o <<Ev("write", p, q)>> \o [s \in 1..4 |-> EvalEvent(at[s])]
    /\ i' = i + 1
    /\ UNCHANGED <<sys, loc, entry, a, stack, pc, dpdt, x, result, error>>

Rk4Return ==
    /\ pc = "rk4_loop"
    /\ i = a.T
    /\ result' = SplitResult(trajectories, Len(a.p_0.data))
    /\ pc' = "ret"
    /\ UNCHANGED <<sys, loc, entry, a, stack, i, p, q, dpdt, x, trajectories, error, log>>

(***************************************************************************)
(* null_integrator                                                          *)
(***************************************************************************)
\* Faulty variant: rejects only when both conditions hold.
NullRejectsBoth(volatile, is_Hamilt) == (~volatile) /\ is_Hamilt

\* if not volatile or is_Hamilt: raise ValueError
NullRejects(volatile, is_Hamilt) == (~volatile) \/ is_Hamilt

NullReject ==
    /\ pc = "null_integrator"
    /\ NullRejects(a.volatile, a.is_Hamilt)
    /\ Raise("ValueError")
    /\ UNCHANGED <<sys, loc, entry, a, stack, i, p, q, dpdt, x, trajectories, result, log>>

NullEnter ==
    /\ pc = "null_integrator"
    /\ ~NullRejects(a.volatile, a.is_Hamilt)
    /\ p' = a.p_0.data
    /\ q' = a.q_0.data
    /\ trajectories' = EmptyBuffer(a.T)
    /\ i' = 0
    /\ log' = Append(log, Mark("alloc"))
    /\ pc' = "null_loop"
    /\ UNCHANGED <<sys, loc, entry, a, stack, dpdt, x, result, error>>

\* Faulty variant: a derivative result is integrated as euler would do.
NullUpdateIntegrates(model, pp, qq) ==
    LET res == Func(model, pp, qq)
    IN  IF "p" \in DOMAIN res THEN <<res.p, res.q>>
        ELSE <<VAdd(pp, res.dp_dt), VAdd(qq, res.dq_dt)>>

\* hasattr(res, "p") decides which pair of fields becomes the next state.
NullUpdate(model, pp, qq) ==
    LET res == Func(model, pp, qq)
    IN  IF "p" \in DOMAIN res THEN <<res.p, res.q>> ELSE <<res.dp_dt, res.dq_dt>>

NullStep ==
    /\ pc = "null_loop"
    /\ i < a.T
    /\ trajectories' = WriteRow(trajectories, i, p, q)
    /\ LET nxt == NullUpdate(a.model, p, q)
       IN  /\ p' = nxt[1]
           /\ q' = nxt[2]
    /\ log' = log \o <<Ev("write", p, q), Ev("eval", p, q)>>
    /\ i' = i + 1
    /\ UNCHANGED <<sys, loc, entry, a, stack, pc, dpdt, x, result, error>>

NullReturn ==
    /\ pc = "null_loop"
    /\ i = a.T
    /\ result' = SplitResult(trajectories, Len(a.p_0.data))
    /\ pc' = "ret"
    /\ UNCHANGED <<sys, loc, entry, a, stack, i, p, q, dpdt, x, trajectories, error, log>>

(***************************************************************************)
(* The operators an implicit integrator asks of the system.  The system     *)
(* classes that provide them are not among the source files; they are       *)
(* modelled from the specification: pack concatenates (q, p) into the       *)
(* combined state, unpack splits it again, and the linearization is the     *)
(* constant Jacobian J of a linear system, acting on the combined state:    *)
(*   zero   J = 0              free   dq/dt = p, dp/dt = 0                  *)
(***************************************************************************)
Systems == {"zero", "free"}

implicit_matrix_package(qq, pp) == [b \in DOMAIN qq |-> <<qq[b], pp[b]>>]

implicit_matrix_unpackage(traj, B) ==
    IntegrationResult([b \in 1..B |-> [t \in DOMAIN traj |-> traj[t][b][1]]],
                      [b \in 1..B |-> [t \in DOMAIN traj |-> traj[t][b][2]]])

implicit_matrix(system) ==
    IF system = "free"
    THEN <<<<RZero, ROne>>, <<RZero, RZero>>>>
    ELSE <<<<RZero, RZero>>, <<RZero, RZero>>>>

\* 2 x 2 matrices over the rationals.
Eye2 == <<<<ROne, RZero>>, <<RZero, ROne>>>>
MScale(c, m) == [r \in 1..2 |-> [k \in 1..2 |-> RMul(c, m[r][k])]]
MAdd(m, n) == [r \in 1..2 |-> [k \in 1..2 |-> RAdd(m[r][k], n[r][k])]]
MSub(m, n) == MAdd(m, MScale(RInt(-1), n))
MMul(m, n) ==
    [r \in 1..2 |-> [k \in 1..2 |->
        RAdd(RMul(m[r][1], n[1][k]), RMul(m[r][2], n[2][k]))]]
MVec(m, v) ==
    <<RAdd(RMul(m[1][1], v[1]), RMul(m[1][2], v[2])),
      RAdd(RMul(m[2][1], v[1]), RMul(m[2][2], v[2]))>>
Det2(m) == RSub(RMul(m[1][1], m[2][2]), RMul(m[1][2], m[2][1]))

\* torch.solve(B, A): the solution X of A X = B, one column per batch element.
Solve2(m, v) ==
    LET d == Det2(m)
    IN  <<RDiv(RSub(RMul(v[1], m[2][2]), RMul(m[1][2], v[2])), d),
          RDiv(RSub(RMul(m[1][1], v[2]), RMul(v[1], m[2][1])), d)>>

(***************************************************************************)
(* backward_euler                                                           *)
(***************************************************************************)
\* system.implicit_matrix_package on system=None: AttributeError.
BackEulerNoSystem ==
    /\ pc = "backward_euler"
    /\ a.system = "None"
    /\ log' = Append(log, Mark("alloc"))
    /\ Raise("AttributeError")
    /\ trajectories' = EmptyBuffer(a.T)
    /\ UNCHANGED <<sys, loc, entry, a, stack, i, p, q, dpdt, x, result>>

BackEulerReject ==
    /\ pc = "backward_euler"
    /\ a.system # "None"
    /\ a.is_Hamilt
    /\ log' = log \o <<Mark("alloc"), Mark("pack")>>
    /\ Raise("ValueError")
    /\ trajectories' = EmptyBuffer(a.T)
    /\ UNCHANGED <<sys, loc, entry, a, stack, i, p, q, dpdt, x, result>>

\* Faulty variant: the loop is entered whatever is_Hamilt is.
BackEulerEnterUnchecked ==
    /\ pc = "backward_euler"
    /\ a.system # "None"
    /\ trajectories' = EmptyBuffer(a.T)
    /\ x' = implicit_matrix_package(a.q_0.data, a.p_0.data)
    /\ i' = 0
    /\ log' = log \o <<Mark("alloc"), Mark("pack")>>
    /\ pc' = "backward_euler_loop"
    /\ UNCHANGED <<sys, loc, entry, a, stack, p, q, dpdt, result, error>>

BackEulerEnter ==
    /\ pc = "backward_euler"
    /\ a.system # "None"
    /\ ~a.is_Hamilt
    /\ trajectories' = EmptyBuffer(a.T)
    /\ x' = implicit_matrix_package(a.q_0.data, a.p_0.data)
    /\ i' = 0
    /\ log' = log \o <<Mark("alloc"), Mark("pack")>>
    /\ pc' = "backward_euler_loop"
    /\ UNCHANGED <<sys, loc, entry, a, stack, p, q, dpdt, result, error>>

\* (deriv_eye - dt * deriv_mat) x_next = x
BackEulerUpdate(system, dt, xx) ==
    LET unknown_mat == MSub(Eye2, MScale(dt, implicit_matrix(system)))
    IN  [b \in DOMAIN xx |-> Solve2(unknown_mat, xx[b])]

BackEulerStep ==
    /\ pc = "backward_euler_loop"
    /\ i < a.T
    /\ trajectories' = [trajectories EXCEPT ![i + 1] = x]
    /\ x' = BackEulerUpdate(a.system, a.dt, x)
    /\ log' = log \o <<Mark("write"), Mark("linearize"), Mark("solve")>>
    /\ i' = i + 1
    /\ UNCHANGED <<sys, loc, entry, a, stack, pc, p, q, dpdt, result, error>>

BackEulerReturn ==
    /\ pc = "backward_euler_loop"
    /\ i = a.T
    /\ result' = implicit_matrix_unpackage(trajectories, Len(a.p_0.data))
    /\ pc' = "ret"
    /\ UNCHANGED <<sys, loc, entry, a, stack, i, p, q, dpdt, x, trajectories, error, log>>

(***************************************************************************)
(* implicit_rk_gauss2                                                       *)
(***************************************************************************)
ImplicitRkNoSystem ==
    /\ pc = "implicit_rk_gauss2"
    /\ a.system = "None"
    /\ log' = Append(log, Mark("alloc"))
    /\ Raise("AttributeError")
    /\ trajectories' = EmptyBuffer(a.T)
    /\ UNCHANGED <<sys, loc, entry, a, stack, i, p, q, dpdt, x, result>>

ImplicitRkReject ==
    /\ pc = "implicit_rk_gauss2"
    /\ a.system # "None"
    /\ a.is_Hamilt
    /\ log' = log \o <<Mark("alloc"), Mark("pack")>>
    /\ Raise("ValueError")
    /\ trajectories' = EmptyBuffer(a.T)
    /\ UNCHANGED <<sys, loc, entry, a, stack, i, p, q, dpdt, x, result>>

ImplicitRkEnter ==
    /\ pc = "implicit_rk_gauss2"
    /\ a.system # "None"
    /\ ~a.is_Hamilt
    /\ trajectories' = EmptyBuffer(a.T)
    /\ x' = implicit_matrix_package(a.q_0.data, a.p_0.data)
    /\ i' = 0
    /\ log' = log \o <<Mark("alloc"), Mark("pack")>>
    /\ pc' = "implicit_rk_gauss2_loop"
    /\ UNCHANGED <<sys, loc, entry, a, stack, p, q, dpdt, result, error>>

\* The loop body solves (I - dt A (x) J) K = (J x ; J x) for the two stage
\* derivatives, A the 2-stage Gauss-Legendre tableau, and advances x by
\* dt (K1 + K2) / 2.  With Z = dt J that is, in exact arithmetic, the
\* solution of (I - Z/2 + Z^2/12) x_next = (I + Z/2 + Z^2/12) x: the
\* square roots of 3 in the tableau cancel.
ImplicitRkUpdate(system, dt, xx) ==
    LET Z == MScale(dt, implicit_matrix(system))
        Z2 == MScale(Rat(1, 12), MMul(Z, Z))
        lhs == MAdd(MSub(Eye2, MScale(Half, Z)), Z2)
        rhs == MAdd(MAdd(Eye2, MScale(Half, Z)), Z2)
    IN  [b \in DOMAIN xx |-> Solve2(lhs, MVec(rhs, xx[b]))]

ImplicitRkStep ==
    /\ pc = "implicit_rk_gauss2_loop"
    /\ i < a.T
    /\ trajectories' = [trajectories EXCEPT ![i + 1] = x]
    /\ x' = ImplicitRkUpdate(a.system, a.dt, x)
    /\ log' = log \o <<Mark("write"), Mark("linearize"), Mark("solve")>>
    /\ i' = i + 1
    /\ UNCHANGED <<sys, loc, entry, a, stack, pc, p, q, dpdt, result, error>>

ImplicitRkReturn ==
    /\ pc = "implicit_rk_gauss2_loop"
    /\ i = a.T
    /\ result' = implicit_matrix_unpackage(trajectories, Len(a.p_0.data))
    /\ pc' = "ret"
    /\ UNCHANGED <<sys, loc, entry, a, stack, i, p, q, dpdt, x, trajectories, error, log>>

(***************************************************************************)
(* scipy_integrator                                                         *)
(***************************************************************************)
\* Faulty variant: only the rank is examined, not the leading dimension.
ScipyBatchedRankOnly(shape) == Len(shape) > 2

\* len(p_0.shape) > 2 or (len(p_0.shape) > 1 and p_0.shape[0] != 1)
ScipyBatched(shape) == Len(shape) > 2 \/ (Len(shape) > 1 /\ shape[1] # 1)

ScipyRejects(volatile, shape) == (~volatile) \/ ScipyBatched(shape)

\* The methods scipy.integrate.solve_ivp knows; it raises ValueError on any
\* other name before it evaluates the vector field.  Of these the model
\* carries RK45.
SolveIvpMethods == {"RK45"}

\* The solution at time t of the model's equations from (p0, q0).  The
\* models' solutions are polynomials of degree at most 2 in t, which the
\* Runge-Kutta pair of RK45 and its dense output reproduce exactly.
Flow(model, p0, q0, t) ==
    LET t2 == RMul(Half, RMul(t, t))
    IN  CASE model = "zero" -> <<p0, q0>>
          [] model = "const" -> <<RAdd(p0, t), RAdd(q0, RMul(RInt(2), t))>>
          [] model = "gravity" -> <<RSub(p0, t), RSub(RAdd(q0, RMul(p0, t)), t2)>>
          [] model = "qforce" -> <<RSub(RSub(p0, RMul(q0, t)), t2), RAdd(q0, t)>>

\* t_eval = np.arange(T) * dt ; y0 = concatenate((p_0, q_0))[0]
solve_ivp(model, p0, q0, T, dt) ==
    [t \in 1..T |-> Flow(model, p0, q0, RMul(RInt(t - 1), dt))]

ScipyReject ==
    /\ pc = "scipy_integrator"
    /\ ScipyRejects(a.volatile, a.p_0.shape)
    /\ Raise("ValueError")
    /\ UNCHANGED <<sys, loc, entry, a, stack, i, p, q, dpdt, x, trajectories, result, log>>

ScipyBadMethod ==
    /\ pc = "scipy_integrator"
    /\ ~ScipyRejects(a.volatile, a.p_0.shape)
    /\ a.solver \notin SolveIvpMethods
    /\ log' = Append(log, Mark("solve_ivp"))
    /\ Raise("ValueError")
    /\ UNCHANGED <<sys, loc, entry, a, stack, i, p, q, dpdt, x, trajectories, result>>

ScipySolve ==
    /\ pc = "scipy_integrator"
    /\ ~ScipyRejects(a.volatile, a.p_0.shape)
    /\ a.solver \in SolveIvpMethods
    /\ LET y == solve_ivp(a.model, a.p_0.data[1], a.q_0.data[1], a.T, a.dt)
           ps == <<[t \in 1..a.T |-> y[t][1]]>>
           qs == <<[t \in 1..a.T |-> y[t][2]]>>
       IN  result' = IntegrationResult(qs, ps)
    /\ log' = log \o <<Mark("solve_ivp"), Ev("eval", a.p_0.data, a.q_0.data)>>
    /\ pc' = "ret"
    /\ UNCHANGED <<sys, loc, entry, a, stack, i, p, q, dpdt, x, trajectories, error>>

(***************************************************************************)
(* numerically_integrate                                                    *)
(***************************************************************************)
\* Faulty variant: a name that matches no branch falls back to euler.
DispatchTargetFallback(integrator, method) ==
    IF method = HAMILTONIAN
    THEN CASE integrator = "leapfrog" -> "leapfrog"
           [] integrator = "rk4" -> "rk4"
           [] startswith_scipy(integrator) -> "scipy_integrator"
           [] OTHER -> "euler"
    ELSE IF method = DIRECT_OUTPUT
    THEN CASE integrator = "leapfrog" -> "leapfrog"
           [] integrator = "null" -> "null_integrator"
           [] integrator = "rk4" -> "rk4"
           [] integrator = "back-euler" -> "backward_euler"
           [] integrator = "implicit-rk" -> "implicit_rk_gauss2"
           [] startswith_scipy(integrator) -> "scipy_integrator"
           [] OTHER -> "euler"
    ELSE "model"

\* The function the if/elif chain selects, "raise" for its two else
\* branches, "model" for a scheme that is neither member of the enum.
DispatchTarget(integrator, method) ==
    IF method = HAMILTONIAN
    THEN CASE integrator = "leapfrog" -> "leapfrog"
           [] integrator = "euler" -> "euler"
           [] integrator = "rk4" -> "rk4"
           [] startswith_scipy(integrator) -> "scipy_integrator"
           [] OTHER -> "raise"
    ELSE IF method = DIRECT_OUTPUT
    THEN CASE integrator = "leapfrog" -> "leapfrog"
           [] integrator = "euler" -> "euler"
           [] integrator = "null" -> "null_integrator"
           [] integrator = "rk4" -> "rk4"
           [] integrator = "back-euler" -> "backward_euler"
           [] integrator = "implicit-rk" -> "implicit_rk_gauss2"
           [] startswith_scipy(integrator) -> "scipy_integrator"
           [] OTHER -> "raise"
    ELSE "model"

\* The recursive call of line 408 passes neither coarsening_factor nor
\* system: both take their defaults, 1 and None.
\* Faulty variant: the coarsening factor is handed on to the inner call.
CoarsenArgsKeepsFactor(args) ==
    [args EXCEPT !.T = args.T * args.coarsening_factor,
                 !.dt = RDiv(args.dt, RInt(args.coarsening_factor)),
                 !.system = "None"]

CoarsenArgs(args) ==
    [args EXCEPT !.T = args.T * args.coarsening_factor,
                 !.dt = RDiv(args.dt, RInt(args.coarsening_factor)),
                 !.coarsening_factor = 1,
                 !.system = "None"]

NICoarsen ==
    /\ pc = "numerically_integrate"
    /\ a.coarsening_factor > 1
    /\ stack' = Append(stack, a)
    /\ a' = CoarsenArgs(a)
    /\ UNCHANGED <<sys, loc, entry, pc, i, p, q, dpdt, x, trajectories, result, error, log>>

\* The keyword arguments of the selected call: is_Hamilt is passed False in
\* the DIRECT_OUTPUT branch and left at its default True in the other.
NIDispatch ==
    /\ pc = "numerically_integrate"
    /\ a.coarsening_factor <= 1
    /\ DispatchTarget(a.integrator, a.method) \notin {"raise", "model"}
    /\ pc' = DispatchTarget(a.integrator, a.method)
    /\ a' = [a EXCEPT !.is_Hamilt = (a.method = HAMILTONIAN),
                      !.solver = IF startswith_scipy(a.integrator)
                                 THEN split_method(a.integrator) ELSE a.solver]
    /\ UNCHANGED <<sys, loc, entry, stack, i, p, q, dpdt, x, trajectories, result, error, log>>

NIUnknown ==
    /\ pc = "numerically_integrate"
    /\ a.coarsening_factor <= 1
    /\ DispatchTarget(a.integrator, a.method) = "raise"
    /\ Raise("ValueError")
    /\ UNCHANGED <<sys, loc, entry, a, stack, i, p, q, dpdt, x, trajectories, result, log>>

\* model(torch.cat([p_0, q_0], dim=1), T): the rollout is the model's own.
\* The model of this scheme ("rollout") is taken to return a time-major
\* tensor of T rows, row t the state (p, q) moved t - 1 unit steps along
\* dp/dt = 1, dq/dt = 2.
BlackBoxRollout(model, p_0, q_0, T) ==
    [kind |-> "Tensor",
     data |-> [t \in 1..T |-> [b \in DOMAIN p_0 |->
                  Flow("const", p_0[b], q_0[b], RInt(t - 1))]]]

NIBlackBox ==
    /\ pc = "numerically_integrate"
    /\ a.coarsening_factor <= 1
    /\ DispatchTarget(a.integrator, a.method) = "model"
    /\ result' = BlackBoxRollout(a.model, a.p_0.data, a.q_0.data, a.T)
    /\ log' = Append(log, Ev("eval", a.p_0.data, a.q_0.data))
    /\ pc' = "ret"
    /\ UNCHANGED <<sys, loc, entry, a, stack, i, p, q, dpdt, x, trajectories, error>>

\* fine_trajectory[np.arange(T) * coarsening_factor, :, :]: an
\* IntegrationResult is a tuple, and a tuple takes no tuple as its index
\* (TypeError); a tensor is indexed along its first axis.
Subscriptable(fine) == fine.kind = "Tensor"

Subsample(fine, T, k) ==
    [kind |-> "Tensor", data |-> [j \in 1..T |-> fine.data[(j - 1) * k + 1]]]

NISubsample ==
    /\ pc = "ret"
    /\ stack # <<>>
    /\ Subscriptable(result)
    /\ LET outer == stack[Len(stack)]
       IN  /\ result' = Subsample(result, outer.T, outer.coarsening_factor)
           /\ a' = outer
    /\ stack' = SubSeq(stack, 1, Len(stack) - 1)
    /\ UNCHANGED <<sys, loc, entry, pc, i, p, q, dpdt, x, trajectories, error, log>>

NISubsampleTypeError ==
    /\ pc = "ret"
    /\ stack # <<>>
    /\ ~Subscriptable(result)
    /\ result' = NoResult
    /\ a' = stack[Len(stack)]
    /\ stack' = SubSeq(stack, 1, Len(stack) - 1)
    /\ Raise("TypeError")
    /\ UNCHANGED <<sys, loc, entry, i, p, q, dpdt, x, trajectories, log>>

\* return trajectory_simulated, to the caller of the public operation.
Return ==
    /\ pc = "ret"
    /\ stack = <<>>
    /\ pc' = "done"
    /\ UNCHANGED <<sys, loc, entry, a, stack, i, p, q, dpdt, x, trajectories, result, error, log>>

(***************************************************************************)
(* SpringMeshSystem (spring_mesh.py).  Arrays are records of a shape and    *)
(* the data, particles are numbered from 0 as in the code; dense matrices   *)
(* are sequences of rows.  A degree of freedom is a pair (particle, axis),  *)
(* flattened particle-major.                                                *)
(***************************************************************************)
RECURSIVE SumSeq(_)
SumSeq(sq) == IF sq = <<>> THEN RZero ELSE RAdd(sq[1], SumSeq(Tail(sq)))

RECURSIVE SelectSeq2(_, _)
\* np.nonzero(np.logical_not(fixed_mask))[0]: the unfixed particle numbers.
SelectSeq2(mask, from) ==
    IF from > Len(mask) THEN <<>>
    ELSE (IF mask[from] THEN <<>> ELSE <<from - 1>>) \o SelectSeq2(mask, from + 1)

GMul(A, B) ==
    [r \in DOMAIN A |-> [c \in DOMAIN B[1] |->
        SumSeq([k \in DOMAIN B |-> RMul(A[r][k], B[k][c])])]]
GSub(A, B) == [r \in DOMAIN A |-> [c \in DOMAIN A[r] |-> RSub(A[r][c], B[r][c])]]
GScale(s, A) == [r \in DOMAIN A |-> [c \in DOMAIN A[r] |-> RMul(s, A[r][c])]]
GTranspose(A, ncols) == [c \in 1..ncols |-> [r \in DOMAIN A |-> A[r][c]]]

DofParticle(n_dims, r) == (r - 1) \div n_dims
DofAxis(n_dims, r) == (r - 1) % n_dims

\* np.diag(np.tile(masses, (1, n_dims)).reshape(-1))
MassMatrix(particles, n_dims) ==
    LET N == Len(particles) * n_dims
    IN  [r \in 1..N |-> [c \in 1..N |->
            IF r = c THEN particles[DofParticle(n_dims, r) + 1].mass ELSE RZero]]

\* The block an edge adds at (block row pr, block column pc_): +k on the
\* diagonal blocks of its endpoints, -k on the two cross blocks.
StiffBlock(edge, pr, pc_) ==
    LET aa == IF pr = edge.a /\ pc_ = edge.a THEN edge.spring_const ELSE RZero
        ab == IF pr = edge.a /\ pc_ = edge.b THEN RNeg(edge.spring_const) ELSE RZero
        ba == IF pr = edge.b /\ pc_ = edge.a THEN RNeg(edge.spring_const) ELSE RZero
        bb == IF pr = edge.b /\ pc_ = edge.b THEN edge.spring_const ELSE RZero
    IN  RAdd(RAdd(aa, ab), RAdd(ba, bb))

StiffMatrix(particles, edges, n_dims) ==
    LET N == Len(particles) * n_dims
    IN  [r \in 1..N |-> [c \in 1..N |->
            IF DofAxis(n_dims, r) # DofAxis(n_dims, c) THEN RZero
            ELSE SumSeq([e \in DOMAIN edges |->
                     StiffBlock(edges[e], DofParticle(n_dims, r), DofParticle(n_dims, c))])]]

SelectMatrix(fixed_mask, n_dims) ==
    LET unfixed == SelectSeq2(fixed_mask, 1)
        N == Len(fixed_mask) * n_dims
    IN  [r \in 1..(Len(unfixed) * n_dims) |-> [c \in 1..N |->
            IF /\ DofParticle(n_dims, c) = unfixed[DofParticle(n_dims, r) + 1]
               /\ DofAxis(n_dims, c) = DofAxis(n_dims, r)
            THEN ROne ELSE RZero]]

\* The fields __init__ stores.  Each edge appears as two directed
\* half-edges: (a, b) for every edge, then (b, a) for every edge.
SpringMeshSystem(n_dims, particles, edges) ==
    [n_dims |-> n_dims,
     particles |-> particles,
     edges |-> edges,
     n_particles |-> Len(particles),
     masses |-> [k \in DOMAIN particles |-> particles[k].mass],
     fixed_mask |-> [k \in DOMAIN particles |-> particles[k].is_fixed],
     edge_indices |-> <<[e \in DOMAIN edges |-> edges[e].a] \o [e \in DOMAIN edges |-> edges[e].b],
                        [e \in DOMAIN edges |-> edges[e].b] \o [e \in DOMAIN edges |-> edges[e].a]>>,
     spring_consts |-> [e \in DOMAIN edges |-> edges[e].spring_const]
                       \o [e \in DOMAIN edges |-> edges[e].spring_const],
     rest_lengths |-> [e \in DOMAIN edges |-> edges[e].rest_length]
                      \o [e \in DOMAIN edges |-> edges[e].rest_length],
     mass_matrix |-> MassMatrix(particles, n_dims),
     stiff_mat |-> StiffMatrix(particles, edges, n_dims),
     select_matrix |-> SelectMatrix([k \in DOMAIN particles |-> particles[k].is_fixed], n_dims)]

\* assert self.n_dims == 2
ConstructFails ==
    /\ pc = "SpringMeshSystem"
    /\ entry.system.n_dims # 2
    /\ Raise("AssertionError")
    /\ UNCHANGED <<sys, loc, entry, a, stack, i, p, q, dpdt, x, trajectories, result, log>>

\* A successful construction; the caller then invokes the operation.
Construct ==
    /\ pc = "SpringMeshSystem"
    /\ entry.system.n_dims = 2
    /\ sys' = SpringMeshSystem(entry.system.n_dims, entry.system.particles, entry.system.edges)
    /\ log' = Append(log, Mark("construct"))
    /\ pc' = entry.op
    /\ UNCHANGED <<loc, entry, a, stack, i, p, q, dpdt, x, trajectories, result, error>>

(***************************************************************************)
(* compute_forces.  Positions are chosen so that every spring length is a   *)
(* rational number; Sqrt is exact on those.                                 *)
(***************************************************************************)
ISqrt(n) == CHOOSE r \in 0..n : r * r = n
RSqrt(r) == <<ISqrt(r[1]), ISqrt(r[2])>>

\* Faulty variant: the division by the spring's length is missing.
ForceCoefficientUnnormalised(spring_const, length, rest_length) ==
    RMul(RMul(RInt(-1), spring_const), RSub(length, rest_length))

\* -1 * spring_consts * (lengths - rest_lengths) / lengths
ForceCoefficient(spring_const, length, rest_length) ==
    RDiv(RMul(RMul(RInt(-1), spring_const), RSub(length, rest_length)), length)

\* gather_forces: every half-edge adds its force to its lead particle.
GatherForces(system, edge_forces) ==
    [k \in 1..system.n_particles |-> [d \in 1..system.n_dims |->
        SumSeq([e \in DOMAIN edge_forces |->
            IF system.edge_indices[1][e] = k - 1 THEN edge_forces[e][d] ELSE RZero])]]

\* compute_forces(q), q one configuration of shape (n_particles, n_dims).
compute_forces(system, qq) ==
    LET E2 == DOMAIN system.edge_indices[1]
        diffs == [e \in E2 |-> [d \in 1..system.n_dims |->
                     RSub(qq[system.edge_indices[1][e] + 1][d],
                          qq[system.edge_indices[2][e] + 1][d])]]
        lengths == [e \in E2 |->
                     RSqrt(SumSeq([d \in 1..system.n_dims |-> RMul(diffs[e][d], diffs[e][d])]))]
        edge_forces == [e \in E2 |-> [d \in 1..system.n_dims |->
                     RMul(ForceCoefficient(system.spring_consts[e], lengths[e],
                                           system.rest_lengths[e]),
                          diffs[e][d])]]
        forces == GatherForces(system, edge_forces)
    IN  [k \in 1..system.n_particles |-> [d \in 1..system.n_dims |->
            IF system.fixed_mask[k] THEN RZero ELSE forces[k][d]]]

\* The caller invokes system.compute_forces(q) on the constructed system.
ComputeForces ==
    /\ pc = "compute_forces"
    /\ result' = [kind |-> "ndarray", data |-> <<compute_forces(sys, a.q.data)>>]
    /\ log' = Append(log, Mark("compute_forces"))
    /\ pc' = "ret"
    /\ UNCHANGED <<sys, loc, entry, a, stack, i, p, q, dpdt, x, trajectories, error>>

(***************************************************************************)
(* generate_trajectory                                                      *)
(***************************************************************************)
\* Faulty variant: only the shape of q0 is examined.
ShapeMismatchPositionsOnly(system, q0, p0) ==
    q0.shape # <<system.n_particles, system.n_dims>>

\* (q0.shape != (n_particles, n_dims)) or (p0.shape != (n_particles, n_dims))
ShapeMismatch(system, q0, p0) ==
    \/ q0.shape # <<system.n_particles, system.n_dims>>
    \/ p0.shape # <<system.n_particles, system.n_dims>>

GTReject ==
    /\ pc = "generate_trajectory"
    /\ ShapeMismatch(sys, a.q0, a.p0)
    /\ Raise("ValueError")
    /\ UNCHANGED <<sys, loc, entry, a, stack, i, p, q, dpdt, x, trajectories, result, log>>

\* select @ (mass - time_step_size ** 2 * stiff) @ select.T
MatUnknown(system, time_step_size) ==
    LET N == system.n_particles * system.n_dims
        inner == GSub(system.mass_matrix,
                      GScale(RMul(time_step_size, time_step_size), system.stiff_mat))
    IN  IF system.select_matrix = <<>> THEN <<>>
        ELSE GMul(GMul(system.select_matrix, inner), GTranspose(system.select_matrix, N))

\* Lines 159-173: the time grid, the sub-step size, the factored matrix of
\* the constrained solve and the initial velocities.
GTPrepare ==
    /\ pc = "generate_trajectory"
    /\ ~ShapeMismatch(sys, a.q0, a.p0)
    /\ LET h == RDiv(a.time_step_size, RInt(a.subsample))
       IN  loc' = [t_eval |-> [j \in 1..a.num_time_steps |->
                                 RMul(RInt(j - 1), a.time_step_size)],
                   num_steps |-> a.num_time_steps * a.subsample,
                   time_step_size |-> h,
                   mat_unknown_factors |-> MatUnknown(sys, h),
                   init_vel |-> [k \in 1..sys.n_particles |-> [d \in 1..sys.n_dims |->
                                   RMul(RDiv(ROne, sys.masses[k]), a.p0.data[k][d])]]]
    /\ log' = Append(log, Mark("lu_factor"))
    /\ pc' = "generate_trajectory_forces"
    /\ UNCHANGED <<sys, entry, a, stack, i, p, q, dpdt, x, trajectories, result, error>>

\* def compute_forces(q) takes one parameter; line 178 (and line 134 of
\* _compute_next_step) call it as compute_forces(q=..., q_dot=...).
compute_forces_parameters == {"q"}
compute_forces_keywords == {"q", "q_dot"}

\* Whether a call's keyword arguments bind to the function's parameters;
\* when they do not, the call raises TypeError before the body runs.
CallBinds(parameters, keywords) == keywords \subseteq parameters

GTInitialForces ==
    /\ pc = "generate_trajectory_forces"
    /\ ~CallBinds(compute_forces_parameters, compute_forces_keywords)
    /\ Raise("TypeError")
    /\ UNCHANGED <<sys, loc, entry, a, stack, i, p, q, dpdt, x, trajectories, result, log>>

(***************************************************************************)
(* The calls a caller may make: the inputs of the model.                    *)
(***************************************************************************)
RECURSIVE Product(_)
Product(sq) == IF sq = <<>> THEN 1 ELSE sq[1] * Product(Tail(sq))

\* A tensor of the given shape (batch axes, then one state dimension); the
\* batch elements hold v, v + 1, ...
TensorOf(shape, v) ==
    [shape |-> shape,
     data |-> [b \in 1..Product(SubSeq(shape, 1, Len(shape) - 1)) |-> RInt(v + b - 1)]]

BatchShapes == {<<1, 1>>, <<2, 1>>}
ScipyShapes == BatchShapes \cup {<<1, 1, 1>>, <<2, 1, 1>>}
InitialPairs == {<<1, 0>>, <<-2, 3>>}
StepSizes == {ROne, Half}
Schemes == {HAMILTONIAN, DIRECT_OUTPUT, OTHER_SCHEME}

ShapesFor(integrator) ==
    IF startswith_scipy(integrator) THEN ScipyShapes ELSE BatchShapes
ModelsFor(integrator, method) ==
    CASE method = OTHER_SCHEME -> RolloutModels
      [] integrator = "null" -> StepModels \cup {"const"}
      [] integrator \in {"back-euler", "implicit-rk", "bogus", "scipy-bogus"} -> {"zero"}
      [] OTHER -> DerivativeModels
SystemsFor(integrator) ==
    IF integrator \in {"back-euler", "implicit-rk"} THEN Systems \cup {"None"} ELSE {"None"}

Args(integrator, method, T, dt, volatile, k, system, model, shape, pq, is_Hamilt, solver) ==
    [integrator |-> integrator, method |-> method, T |-> T, dt |-> dt,
     volatile |-> volatile, coarsening_factor |-> k, system |-> system,
     model |-> model, p_0 |-> TensorOf(shape, pq[1]), q_0 |-> TensorOf(shape, pq[2]),
     is_Hamilt |-> is_Hamilt, solver |-> solver]

\* numerically_integrate(integrator, p_0, q_0, model, method, T, dt,
\*                       volatile, device, coarsening_factor, system)
IntegrateCalls ==
    UNION {
      {[op |-> "numerically_integrate",
        args |-> Args(n, m, T, dt, v, k, s, f, sh, pq, TRUE, "")] :
          T \in 1..MaxT, dt \in StepSizes, v \in BOOLEAN,
          k \in 1..MaxCoarsen, s \in SystemsFor(n), f \in ModelsFor(n, m),
          sh \in ShapesFor(n), pq \in InitialPairs}
      : n \in IntegratorNames, m \in Schemes}

\* Direct calls of the integrators whose arguments the dispatcher never
\* produces.
NullCalls ==
    {[op |-> "null_integrator",
      args |-> Args("", DIRECT_OUTPUT, T, ROne, v, 1, "None", f, <<2, 1>>, <<1, 0>>, h, "")] :
        T \in 1..MaxT, v \in BOOLEAN, h \in BOOLEAN, f \in ModelsFor("null", DIRECT_OUTPUT)}

ImplicitCalls ==
    {[op |-> o,
      args |-> Args("", DIRECT_OUTPUT, T, dt, v, 1, s, "zero", sh, <<1, 0>>, h, "")] :
        o \in {"backward_euler", "implicit_rk_gauss2"}, T \in 1..MaxT, dt \in StepSizes,
        v \in BOOLEAN, s \in Systems \cup {"None"}, sh \in BatchShapes, h \in BOOLEAN}

\* leapfrog(p_0, q_0, Func, T, dt, volatile, is_Hamilt, device), called
\* directly.
LeapfrogCalls ==
    {[op |-> "leapfrog",
      args |-> Args("", DIRECT_OUTPUT, T, dt, v, 1, "None", f, sh, pq, h, "")] :
        T \in 1..MaxT, dt \in StepSizes, v \in BOOLEAN,
        f \in CoupledModels \cup {"gravity"}, sh \in BatchShapes, pq \in InitialPairs,
        h \in BOOLEAN}

ScipyCalls ==
    {[op |-> "scipy_integrator",
      args |-> Args("", DIRECT_OUTPUT, T, ROne, v, 1, "None", f, sh, <<1, 0>>, h, m)] :
        T \in 1..MaxT, v \in BOOLEAN, f \in {"zero", "qforce"}, sh \in ScipyShapes,
        h \in BOOLEAN, m \in {"RK45", "bogus"}}

\* Mesh inputs: two particles joined by one spring.
Array(shape, data) == [shape |-> shape, data |-> data]
Zeros(rows, cols) == Array(<<rows, cols>>, [r \in 1..rows |-> [c \in 1..cols |-> RZero]])
Positions(pts) ==
    Array(<<Len(pts), 2>>, [k \in DOMAIN pts |-> <<RInt(pts[k][1]), RInt(pts[k][2])>>])

Configurations ==
    {<<<<0, 0>>, <<3, 4>>>>, <<<<1, 1>>, <<1, 11>>>>, <<<<2, 0>>, <<7, 0>>>>,
     <<<<0, 0>>, <<-6, -8>>>>, <<<<0, 0>>, <<0, 2>>>>}

MassPairs == {<<1, 1>>, <<2, 3>>}
SpringConsts == {1, 3}
RestLengths == {5, 10}

MeshSystems(n_dims, masses, consts) ==
    {[n_dims |-> n_dims,
      particles |-> <<[mass |-> RInt(m[1]), is_fixed |-> f0],
                      [mass |-> RInt(m[2]), is_fixed |-> f1]>>,
      edges |-> <<[a |-> 0, b |-> 1, spring_const |-> RInt(k), rest_length |-> RInt(r)]>>] :
        m \in masses, f0 \in BOOLEAN, f1 \in BOOLEAN, k \in consts, r \in RestLengths}

ForceCalls ==
    {[op |-> "compute_forces", system |-> s, args |-> [q |-> Positions(c)]] :
        s \in MeshSystems(2, {<<1, 1>>}, SpringConsts), c \in Configurations}

TrajectoryInputs ==
    {[q0 |-> q0, p0 |-> p0, num_time_steps |-> n, time_step_size |-> Half,
      subsample |-> k, noise_sigma |-> RZero] :
        q0 \in {Positions(<<<<0, 0>>, <<3, 4>>>>), Positions(<<<<1, 1>>, <<1, 11>>>>),
                Zeros(3, 2), Zeros(2, 3)},
        p0 \in {Zeros(2, 2), Positions(<<<<1, 2>>, <<0, -1>>>>), Zeros(3, 2), Zeros(2, 3)},
        n \in 1..MaxT, k \in 1..MaxCoarsen}

TrajectoryCalls ==
    {[op |-> "generate_trajectory", system |-> s, args |-> g] :
        s \in MeshSystems(2, MassPairs, {3}), g \in TrajectoryInputs}

\* SpringMeshSystem(n_dims=...) for a mesh that is not two-dimensional.
BadDimensionCalls ==
    {[op |-> "generate_trajectory", system |-> s,
      args |-> [q0 |-> Zeros(2, s.n_dims), p0 |-> Zeros(2, s.n_dims), num_time_steps |-> 1,
                time_step_size |-> Half, subsample |-> 1, noise_sigma |-> RZero]] :
        s \in MeshSystems(1, {<<1, 1>>}, {3}) \cup MeshSystems(3, {<<1, 1>>}, {3})}

\* The operations of a SpringMeshSystem: the caller constructs the system first.
MeshOperations == {"compute_forces", "generate_trajectory"}

IntegratorCalls ==
    IntegrateCalls \cup NullCalls \cup ImplicitCalls \cup ScipyCalls \cup LeapfrogCalls
MeshCalls == ForceCalls \cup TrajectoryCalls \cup BadDimensionCalls

Init ==
    /\ entry \in IntegratorCalls \cup MeshCalls
    /\ a = entry.args
    /\ pc = IF entry.op \in MeshOperations THEN "SpringMeshSystem" ELSE entry.op
    /\ stack = <<>>
    /\ i = 0
    /\ p = <<>>
    /\ q = <<>>
    /\ dpdt = <<>>
    /\ x = <<>>
    /\ trajectories = <<>>
    /\ result = NoResult
    /\ error = ""
    /\ log = <<>>
    /\ sys = <<>>
    /\ loc = <<>>

Next ==
    \/ NICoarsen \/ NIDispatch \/ NIUnknown \/ NIBlackBox
    \/ NISubsample \/ NISubsampleTypeError \/ Return
    \/ EulerEnter \/ EulerStep \/ EulerReturn
    \/ LeapfrogEnter \/ LeapfrogStep \/ LeapfrogReturn
    \/ Rk4Enter \/ Rk4Step \/ Rk4Return
    \/ NullReject \/ NullEnter \/ NullStep \/ NullReturn
    \/ BackEulerNoSystem \/ BackEulerReject \/ BackEulerEnter \/ BackEulerStep \/ BackEulerReturn
    \/ ImplicitRkNoSystem \/ ImplicitRkReject \/ ImplicitRkEnter \/ ImplicitRkStep
    \/ ImplicitRkReturn
    \/ ScipyReject \/ ScipyBadMethod \/ ScipySolve
    \/ ConstructFails \/ Construct \/ ComputeForces
    \/ GTReject \/ GTPrepare \/ GTInitialForces

Spec == Init /\ [][Next]_vars

(***************************************************************************)
(* Vocabulary of the properties.                                            *)
(***************************************************************************)
Done == pc = "done"
Returned == pc = "done" /\ error = ""
Performed(op) == \E k \in DOMAIN log : log[k].op = op
ViaDispatcher == entry.op = "numerically_integrate"
\* The integrator function the call runs: named directly, or selected by
\* the dispatcher.
Runs(fn) ==
    \/ entry.op = fn
    \/ /\ ViaDispatcher
       /\ DispatchTarget(entry.args.integrator, entry.args.method) = fn
Written(t) == trajectories[t] # <<>>
\* The is_Hamilt flag the integrator function is called with.
CalledHamilt ==
    IF ViaDispatcher THEN entry.args.method = HAMILTONIAN ELSE entry.args.is_Hamilt
Batch == 1..Len(entry.args.p_0.data)

(***************************************************************************)
(* C1.  When numerically_integrate returns an integrator's trajectory, the  *)
(* trajectory holds exactly T states for every batch element, and its       *)
(* state at time index 0 is the initial one: p_0 in the p field, q_0 in     *)
(* the q field.                                                             *)
(***************************************************************************)
C1_LengthAndFirstState ==
    (ViaDispatcher /\ Returned /\ result.kind = "IntegrationResult") =>
        /\ Len(result.p) = Len(entry.args.p_0.data)
        /\ Len(result.q) = Len(entry.args.q_0.data)
        /\ \A b \in Batch :
              /\ Len(result.p[b]) = entry.args.T
              /\ Len(result.q[b]) = entry.args.T
              /\ result.p[b][1] = entry.args.p_0.data[b]
              /\ result.q[b][1] = entry.args.q_0.data[b]

\* A returned leapfrog trajectory of several states that moves away from
\* an initial state whose p and q differ.
C1_Witness ==
    /\ ViaDispatcher /\ Returned /\ result.kind = "IntegrationResult"
    /\ entry.args.integrator = "leapfrog"
    /\ entry.args.T >= 2
    /\ Len(entry.args.p_0.data) = 2
    /\ result.p[2][2] # result.p[2][1]
    /\ result.p[2][1] # result.q[2][1]

(***************************************************************************)
(* C2.  With coarsening factor k > 1 the dispatcher returns the fine run    *)
(* (T*k steps of size dt/k) subsampled at stride k: once the fine run has   *)
(* recorded its T*k states, the call ends without error in a trajectory     *)
(* of T states whose state j is the fine run's state j*k.                   *)
(***************************************************************************)
FineRunRecorded ==
    /\ Len(trajectories) = entry.args.T * entry.args.coarsening_factor
    /\ \A t \in DOMAIN trajectories : Written(t)

C2_CoarseEqualsSubsampledFine ==
    (/\ ViaDispatcher
     /\ entry.args.coarsening_factor > 1
     /\ entry.args.integrator \in {"euler", "leapfrog", "rk4", "null"}
     /\ Done
     /\ FineRunRecorded) =>
        /\ error = ""
        /\ \A b \in Batch : \A j \in 1..entry.args.T :
              /\ result.p[b][j] = trajectories[(j - 1) * entry.args.coarsening_factor + 1][b][1]
              /\ result.q[b][j] = trajectories[(j - 1) * entry.args.coarsening_factor + 1][b][2]

(***************************************************************************)
(* C3.  As claimed: under every scheme value, an integrator name that is    *)
(* unknown or not supported for the scheme makes the dispatcher fail with   *)
(* an error, with no model or system evaluation and no trajectory.          *)
(***************************************************************************)
KnownNames ==
    {"euler", "leapfrog", "rk4", "back-euler", "implicit-rk", "null", "scipy-RK45"}
DirectOnlyNames == {"back-euler", "implicit-rk", "null"}
Unsupported(integrator, method) ==
    \/ integrator \notin KnownNames
    \/ method = HAMILTONIAN /\ integrator \in DirectOnlyNames

FailsBeforeEvaluation ==
    /\ ~Performed("eval")
    /\ ~Performed("pack")
    /\ ~Performed("linearize")
    /\ ~Performed("solve")
    /\ result = NoResult
    /\ Done => error # ""

C4_NullRejectsEarly ==
    (/\ Runs("null_integrator")
     /\ pc # "numerically_integrate"
     /\ (~entry.args.volatile \/ CalledHamilt)) =>
        /\ pc = "null_integrator" \/ (Done /\ error = "ValueError")
        /\ ~Performed("alloc")
        /\ ~Performed("eval")
        /\ ~Performed("write")
        /\ trajectories = <<>>
        /\ result = NoResult

\* A volatile call in Hamiltonian mode has been rejected.
C4_Witness ==
    /\ entry.op = "null_integrator"
    /\ entry.args.volatile
    /\ CalledHamilt
    /\ Done
    /\ error = "ValueError"

(***************************************************************************)
(* C5.  backward_euler and implicit_rk_gauss2 called with is_Hamilt true    *)
(* raise before any integration step: the system is never linearised, no    *)
(* linear solve is done, no state is recorded and nothing is returned.      *)
(***************************************************************************)
C5_ImplicitRejectsHamiltonian ==
    (entry.op \in {"backward_euler", "implicit_rk_gauss2"} /\ CalledHamilt) =>
        /\ pc = entry.op \/ (Done /\ error # "")
        /\ ~Performed("linearize")
        /\ ~Performed("solve")
        /\ ~Performed("write")
        /\ \A t \in DOMAIN trajectories : ~Written(t)
        /\ result = NoResult

\* implicit_rk_gauss2 given a system and is_Hamilt true has raised, after
\* the buffer allocation and the packing of the initial state only.
C5_Witness ==
    /\ entry.op = "implicit_rk_gauss2"
    /\ CalledHamilt
    /\ entry.args.system # "None"
    /\ Done
    /\ error = "ValueError"
    /\ Len(log) = 2
    /\ entry.args.T > 1

(***************************************************************************)
(* C6.  scipy_integrator rejects, with ValueError and before the solver or  *)
(* the model is called, every call whose batch size exceeds one and every   *)
(* call whose volatile flag is false.                                       *)
(***************************************************************************)
BatchSize(shape) == Product(SubSeq(shape, 1, Len(shape) - 1))

C6_ScipyRejectsEarly ==
    (/\ Runs("scipy_integrator")
     /\ pc # "numerically_integrate"
     /\ (~entry.args.volatile \/ BatchSize(entry.args.p_0.shape) > 1)) =>
        /\ pc = "scipy_integrator" \/ (Done /\ error = "ValueError")
        /\ ~Performed("solve_ivp")
        /\ ~Performed("eval")
        /\ result = NoResult

\* A volatile call with a batch of two, routed by the dispatcher, has been
\* rejected.
C6_Witness ==
    /\ ViaDispatcher
    /\ Runs("scipy_integrator")
    /\ entry.args.volatile
    /\ entry.args.p_0.shape = <<2, 1>>
    /\ entry.args.integrator = "scipy-RK45"
    /\ Done
    /\ error = "ValueError"

(***************************************************************************)
(* C7.  In direct-derivative mode with a model whose derivatives are zero   *)
(* for every input, euler and rk4 record the initial (p, q) at every time   *)
(* index: in the buffer while integrating, and in the returned trajectory.  *)
(***************************************************************************)
C7_ZeroDerivativeHoldsState ==
    (/\ ViaDispatcher
     /\ entry.args.integrator \in {"euler", "rk4"}
     /\ entry.args.method = DIRECT_OUTPUT
     /\ entry.args.model = "zero") =>
        /\ \A t \in DOMAIN trajectories : Written(t) =>
              \A b \in Batch :
                  trajectories[t][b] = <<entry.args.p_0.data[b], entry.args.q_0.data[b]>>
        /\ (Returned /\ result.kind = "IntegrationResult") =>
              \A b \in Batch : \A t \in 1..entry.args.T :
                  /\ result.p[b][t] = entry.args.p_0.data[b]
                  /\ result.q[b][t] = entry.args.q_0.data[b]

\* rk4 has returned a trajectory of the largest length for the zero model.
C7_Witness ==
    /\ ViaDispatcher
    /\ entry.args.integrator = "rk4"
    /\ entry.args.method = DIRECT_OUTPUT
    /\ entry.args.model = "zero"
    /\ entry.args.T = MaxT
    /\ Returned
    /\ result.kind = "IntegrationResult"
    /\ Len(result.p[1]) = MaxT

(***************************************************************************)
(* C8.  generate_trajectory on two particles joined by one spring, particle *)
(* 0 fixed, particle 1 free and at rest at exactly the rest length from     *)
(* particle 0, completes and reports particle 1 at its initial position     *)
(* at every recorded time.                                                  *)
(***************************************************************************)
SquaredDistance(qq) ==
    RAdd(RMul(RSub(qq[2][1], qq[1][1]), RSub(qq[2][1], qq[1][1])),
         RMul(RSub(qq[2][2], qq[1][2]), RSub(qq[2][2], qq[1][2])))
Distance(qq) == RSqrt(SquaredDistance(qq))

AtRestAtRestLength ==
    /\ entry.system.n_dims = 2
    /\ entry.system.particles[1].is_fixed
    /\ ~entry.system.particles[2].is_fixed
    /\ entry.args.q0.shape = <<2, 2>>
    /\ entry.args.p0 = Zeros(2, 2)
    /\ Distance(entry.args.q0.data) = entry.system.edges[1].rest_length

C8_EquilibriumIsHeld ==
    (entry.op = "generate_trajectory" /\ AtRestAtRestLength /\ Done) =>
        /\ error = ""
        /\ result.kind = "ParticleTrajectoryResult"
        /\ \A t \in DOMAIN result.q : result.q[t][2] = entry.args.q0.data[2]

(***************************************************************************)
(* C9.  compute_forces on two free particles joined by one spring of        *)
(* constant k and rest length r, at distance d # r: the two forces are      *)
(* opposite, lie along the line through the particles, are not zero and     *)
(* have magnitude k * |d - r|.                                              *)
(***************************************************************************)
Force(k) == result.data[1][k]
Separation == [c \in 1..2 |-> RSub(entry.args.q.data[2][c], entry.args.q.data[1][c])]
TwoFreeOffRest ==
    /\ entry.op = "compute_forces"
    /\ ~entry.system.particles[1].is_fixed
    /\ ~entry.system.particles[2].is_fixed
    /\ Distance(entry.args.q.data) # entry.system.edges[1].rest_length

C9_EqualOppositeColinear ==
    (TwoFreeOffRest /\ result.kind = "ndarray") =>
        LET stretch == RMul(entry.system.edges[1].spring_const,
                            RSub(Distance(entry.args.q.data),
                                 entry.system.edges[1].rest_length))
        IN  /\ Force(1) = VNeg(Force(2))
            /\ RSub(RMul(Force(2)[1], Separation[2]),
                    RMul(Force(2)[2], Separation[1])) = RZero
            /\ RAdd(RMul(Force(2)[1], Force(2)[1]), RMul(Force(2)[2], Force(2)[2]))
                   = RMul(stretch, stretch)
            /\ Force(2) # <<RZero, RZero>>

\* The forces of a stretched spring (distance 10, rest length 5) whose
\* separation has both coordinates non-zero have been returned.
C9_Witness ==
    /\ TwoFreeOffRest
    /\ result.kind = "ndarray"
    /\ Returned
    /\ Distance(entry.args.q.data) = RInt(10)
    /\ entry.system.edges[1].rest_length = RInt(5)
    /\ Separation[1] # RZero
    /\ Separation[2] # RZero

(***************************************************************************)
(* C10.  generate_trajectory raises ValueError, before the implicit step    *)
(* matrix is factorised and without a result, when q0 or p0 does not have   *)
(* shape (n_particles, n_dims); and a SpringMeshSystem whose n_dims is not  *)
(* 2 is never constructed: the constructor fails with AssertionError.       *)
(***************************************************************************)
BadShape ==
    \/ entry.args.q0.shape # <<Len(entry.system.particles), entry.system.n_dims>>
    \/ entry.args.p0.shape # <<Len(entry.system.particles), entry.system.n_dims>>

C10_RejectsShapesAndDimensions ==
    (entry.op = "generate_trajectory") =>
        /\ (entry.system.n_dims # 2) =>
              /\ pc = "SpringMeshSystem" \/ (Done /\ error = "AssertionError")
              /\ ~Performed("construct")
              /\ result = NoResult
        /\ (entry.system.n_dims = 2 /\ BadShape) =>
              /\ \/ pc \in {"SpringMeshSystem", "generate_trajectory"}
                 \/ Done /\ error = "ValueError"
              /\ ~Performed("lu_factor")
              /\ result = NoResult

\* A call whose q0 has the right shape and whose p0 has one row too many
\* has been rejected on a constructed system.
C10_Witness ==
    /\ entry.op = "generate_trajectory"
    /\ entry.system.n_dims = 2
    /\ entry.args.q0.shape = <<2, 2>>
    /\ entry.args.p0.shape = <<3, 2>>
    /\ Performed("construct")
    /\ Done
    /\ error = "ValueError"

(***************************************************************************)
(* C11.  generate_trajectory, given q0 and p0 of the right shape, produces  *)
(* a trajectory in which every fixed particle has, at every recorded step,  *)
(* its initial noiseless position, its initial velocity (dq_dt) and its     *)
(* initial momentum, also when p0 is not zero on the fixed particle.        *)
(***************************************************************************)
ValidTrajectoryCall ==
    /\ entry.op = "generate_trajectory"
    /\ entry.system.n_dims = 2
    /\ ~BadShape

InitialVelocity(k) ==
    [d \in 1..2 |-> RDiv(entry.args.p0.data[k][d], entry.system.particles[k].mass)]

HasFixedParticle ==
    \E k \in DOMAIN entry.system.particles : entry.system.particles[k].is_fixed

IsEval(e) == e.op = "eval"
Evals == SelectSeq(log, IsEval)

\* The pair the model hands back, taken as it is.
ModelOutput(model, pp, qq) ==
    LET res == Func(model, pp, qq)
    IN  IF model \in StepModels THEN <<res.p, res.q>> ELSE <<res.dp_dt, res.dq_dt>>

Chained ==
    /\ Len(Evals) > 0 => (Evals[1].p = a.p_0.data /\ Evals[1].q = a.q_0.data)
    /\ \A j \in 1..(Len(Evals) - 1) :
          <<Evals[j + 1].p, Evals[j + 1].q>> = ModelOutput(a.model, Evals[j].p, Evals[j].q)

NullSucceeded == Runs("null_integrator") /\ (pc = "ret" \/ Returned)

C12_NullEvaluatesTMinusOne ==
    NullSucceeded => (Len(Evals) = a.T - 1 /\ Chained)

(***************************************************************************)
(* C12, amended.  A successful null_integrator call with T requested        *)
(* states performs exactly T evaluations of the model: the first on         *)
(* (p_0, q_0), each later one on the output of the previous one taken as    *)
(* it is; state j of the trajectory is the input of evaluation j, and the   *)
(* output of the T-th evaluation is left in the locals, unrecorded.         *)
(***************************************************************************)
C12_NullEvaluatesT ==
    (Runs("null_integrator") /\ (pc = "null_loop" \/ NullSucceeded)) =>
        /\ Len(Evals) = i
        /\ NullSucceeded => Len(Evals) = a.T
        /\ Chained
        /\ \A j \in 1..Len(Evals) :
              trajectories[j] = [b \in DOMAIN a.p_0.data |-> <<Evals[j].p[b], Evals[j].q[b]>>]
        /\ Len(Evals) > 0 =>
              <<p, q>> = ModelOutput(a.model, Evals[Len(Evals)].p, Evals[Len(Evals)].q)

\* A call for MaxT states of a model that returns next states has returned.
C12_Witness ==
    /\ Runs("null_integrator")
    /\ Returned
    /\ a.model = "step"
    /\ a.T = MaxT
    /\ Len(Evals) = MaxT
    /\ Len(result.p[1]) = MaxT

(***************************************************************************)
(* C13.  In euler, leapfrog and rk4, in both modes, the buffer is           *)
(* allocated once with T slots and never resized; the slot of index i is    *)
(* written before the i-th state is superseded, so for every i in 0..T-1    *)
(* the state recorded at index i is the state after exactly i updates,      *)
(* and the state produced by the T-th update is never recorded.             *)
(***************************************************************************)
ExplicitIntegrators == {"euler", "leapfrog", "rk4"}

\* The integrator function the call runs.
Running ==
    IF ViaDispatcher
    THEN DispatchTarget(entry.args.integrator, entry.args.method)
    ELSE entry.op

\* One update of the running integrator on s = <<p, q, dpdt>>.
UpdateOf(fn, s) ==
    CASE fn = "euler" ->
           LET u == EulerUpdate(a.is_Hamilt, a.model, a.dt, s[1], s[2])
           IN  <<u[1], u[2], s[3]>>
      [] fn = "rk4" ->
           LET u == Rk4Update(a.is_Hamilt, a.model, a.dt, s[1], s[2])
           IN  <<u[1], u[2], s[3]>>
      [] fn = "leapfrog" ->
           LET u == LeapfrogUpdate(a.is_Hamilt, a.model, a.dt, s[1], s[2], s[3])
           IN  <<u[1], u[2], u[3]>>

\* The states after 0, 1, ..., n updates, starting from (p_0, q_0).
RECURSIVE Orbit(_, _)
Orbit(fn, n) ==
    IF n = 0
    THEN <<<<a.p_0.data, a.q_0.data,
             dpdt_dqdt(a.is_Hamilt, a.model, a.p_0.data, a.q_0.data)[1]>>>>
    ELSE LET before == Orbit(fn, n - 1)
         IN  Append(before, UpdateOf(fn, before[n]))

InsideExplicit ==
    /\ Running \in ExplicitIntegrators
    /\ \/ pc \in {"euler_loop", "leapfrog_loop", "rk4_loop", "ret"}
       \/ Returned

AllocCount == Len(SelectSeq(log, LAMBDA e : e.op = "alloc"))

C13_RecordsPreUpdateStates ==
    InsideExplicit =>
        LET orbit == Orbit(Running, i)
        IN  /\ AllocCount = 1
            /\ Len(trajectories) = a.T
            /\ i <= a.T
            /\ \A t \in 1..a.T :
                  IF t <= i
                  THEN trajectories[t] =
                         [b \in DOMAIN a.p_0.data |-> <<orbit[t][1][b], orbit[t][2][b]>>]
                  ELSE ~Written(t)
            /\ <<p, q>> = <<orbit[i + 1][1], orbit[i + 1][2]>>
            /\ Returned =>
                  /\ i = a.T
                  /\ \A b \in DOMAIN a.p_0.data : \A t \in 1..a.T :
                        /\ result.p[b][t] = orbit[t][1][b]
                        /\ result.q[b][t] = orbit[t][2][b]

\* leapfrog has returned MaxT states of a system whose state keeps
\* changing: the state left in the locals by the last update differs from
\* the last recorded one.
C13_Witness ==
    /\ Running = "leapfrog"
    /\ Returned
    /\ a.T = MaxT
    /\ a.model = "qforce"
    /\ trajectories[MaxT] # [b \in DOMAIN a.p_0.data |-> <<p[b], q[b]>>]
    /\ result.q[1][MaxT] # result.q[1][MaxT - 1]

(***************************************************************************)
(* C14.  generate_trajectory with subsample = N, given q0 and p0 of the     *)
(* right shape, returns exactly num_time_steps records taken every N-th     *)
(* sub-step of size time_step_size/N: record 0 is the initial state and     *)
(* record j carries the timestamp j * time_step_size.                       *)
(***************************************************************************)
C14_SubsampledRecords ==
    (ValidTrajectoryCall /\ entry.args.subsample > 1 /\ Done) =>
        /\ error = ""
        /\ result.kind = "ParticleTrajectoryResult"
        /\ loc.time_step_size =
              RDiv(entry.args.time_step_size, RInt(entry.args.subsample))
        /\ Len(result.q_noiseless) = entry.args.num_time_steps
        /\ Len(result.t_steps) = entry.args.num_time_steps
        /\ result.q_noiseless[1] = entry.args.q0.data
        /\ result.p_noiseless[1] = entry.args.p0.data
        /\ \A j \in 1..entry.args.num_time_steps :
              result.t_steps[j] = RMul(RInt(j - 1), entry.args.time_step_size)

(***************************************************************************)
(* C15.  Each rk4 step advances p and q by (dt/6) times the weighted sum    *)
(* of the four stage derivatives, with weights (1,2,3,1) in the             *)
(* Hamiltonian branch and (1,2,2,1) in the direct branch; for a             *)
(* state-independent derivative c the step is dt*c in the direct branch     *)
(* and (7/6)*dt*c in the Hamiltonian branch.                                *)
(***************************************************************************)
Deriv(s) == dpdt_dqdt(a.is_Hamilt, a.model, s[1], s[2])
Moved(s, c, k) == <<VAdd(s[1], VScale(c, k[1])), VAdd(s[2], VScale(c, k[2]))>>

\* s advanced by (dt/6) * (k1 + 2*k2 + w*k3 + k4).
WeightedStep(s, w) ==
    LET k1 == Deriv(s)
        k2 == Deriv(Moved(s, RMul(Half, a.dt), k1))
        k3 == Deriv(Moved(s, RMul(Half, a.dt), k2))
        k4 == Deriv(Moved(s, a.dt, k3))
        sum == [c \in 1..2 |->
                  VAdd(VAdd(VAdd(k1[c], VScale(RInt(2), k2[c])), VScale(RInt(w), k3[c])),
                       k4[c])]
    IN  Moved(s, RDiv(a.dt, RInt(6)), sum)

RowState(t) ==
    <<[b \in DOMAIN a.p_0.data |-> trajectories[t][b][1]],
      [b \in DOMAIN a.p_0.data |-> trajectories[t][b][2]]>>

\* The state that followed the one recorded at slot t (t <= i).
Successor(t) == IF t < i THEN RowState(t + 1) ELSE <<p, q>>

InsideRk4 == Running = "rk4" /\ (pc \in {"rk4_loop", "ret"} \/ Returned)

C15_Rk4Weights ==
    InsideRk4 =>
        \A t \in 1..i :
            /\ Successor(t) = WeightedStep(RowState(t), IF a.is_Hamilt THEN 3 ELSE 2)
            /\ a.model = "const" =>
                  Successor(t) =
                      Moved(RowState(t),
                            IF a.is_Hamilt THEN RMul(Rat(7, 6), a.dt) ELSE a.dt,
                            Deriv(RowState(t)))

\* A Hamiltonian-branch run on a constant derivative has returned several
\* states.
C15_Witness ==
    /\ Running = "rk4"
    /\ Returned
    /\ a.is_Hamilt
    /\ a.model = "const"
    /\ a.T = MaxT
    /\ result.p[1][2] # result.p[1][1]

(***************************************************************************)
(* C16.  As claimed: every leapfrog step is a half momentum kick, a full    *)
(* position drift with the half-updated momentum and a second half          *)
(* momentum kick, and the first half-kick of a step uses the momentum       *)
(* derivative at that step's own starting (p, q).                           *)
(***************************************************************************)
InsideLeapfrog == Running = "leapfrog" /\ (pc \in {"leapfrog_loop", "ret"} \/ Returned)

EvalPoint(n) == <<Evals[n].p, Evals[n].q>>
HalfStep == RMul(a.dt, Half)

\* Step t (1-based) went from the state recorded at slot t to its
\* successor by kick, drift, kick, the first kick using the derivative dp.
KickDriftKick(t, dp) ==
    LET s == RowState(t)
        p_half == VAdd(s[1], VScale(HalfStep, dp))
        q_next == VAdd(s[2], VScale(a.dt, Deriv(<<p_half, s[2]>>)[2]))
        p_next == VAdd(p_half, VScale(HalfStep, Deriv(<<p_half, q_next>>)[1]))
    IN  Successor(t) = <<p_next, q_next>>

IntegratorFunctions ==
    {"euler", "leapfrog", "rk4", "null_integrator", "backward_euler",
     "implicit_rk_gauss2", "scipy_integrator"}

C17_ArgumentsThreaded ==
    (ViaDispatcher /\ pc \in IntegratorFunctions) =>
        /\ a.volatile = entry.args.volatile
        /\ pc \in {"backward_euler", "implicit_rk_gauss2"} =>
              a.system = entry.args.system

(***************************************************************************)
(* C18.  When numerically_integrate is called with coarsening_factor > 1    *)
(* the inner call runs with coarsening factor 1 and does not coarsen        *)
(* again: at most one frame of the dispatcher is ever suspended.  The       *)
(* dispatcher terminates for every coarsening factor and every T: every     *)
(* step of the call strictly lowers a bound on the steps that remain,       *)
(* which is never negative.                                                 *)
(***************************************************************************)
RecursionBounded ==
    /\ Len(stack) <= 1
    /\ stack # <<>> =>
          /\ a.coarsening_factor = 1
          /\ stack[1] = entry.args
          /\ a.T = entry.args.T * entry.args.coarsening_factor

LoopPoints ==
    {"euler_loop", "leapfrog_loop", "rk4_loop", "null_loop", "backward_euler_loop",
     "implicit_rk_gauss2_loop"}

\* A bound on the number of steps the call can still take.
StepsLeft ==
    CASE pc = "done" -> 0
      [] pc = "ret" -> 1 + Len(stack)
      [] pc \in LoopPoints -> (a.T - i) + 2 + Len(stack)
      [] pc = "numerically_integrate" ->
           IF a.coarsening_factor > 1
           THEN a.T * a.coarsening_factor + 6 + Len(stack)
           ELSE a.T + 4 + Len(stack)
      [] OTHER -> a.T + 3 + Len(stack)

C18_RecursesOnceAndTerminates ==
    [][ViaDispatcher =>
          /\ RecursionBounded
          /\ RecursionBounded'
          /\ StepsLeft' < StepsLeft
          /\ StepsLeft' >= 0]_vars

\* The fine run of a coarsened call is in its last iteration, one frame
\* suspended.
C18_Witness ==
    /\ ViaDispatcher
    /\ entry.args.coarsening_factor = MaxCoarsen
    /\ entry.args.T = MaxT
    /\ Len(stack) = 1
    /\ a.coarsening_factor = 1
    /\ pc = "rk4_loop"
    /\ i = MaxT * MaxCoarsen

====
